---- MODULE Spec2Model ----
(***************************************************************************)
(* Model of marcofrancis/Leverage_app: plot_restaking_portfolios           *)
(* (src/Leverage.py) as it is driven by the Streamlit script               *)
(* (src/Leverage_app.py).                                                  *)
(*                                                                         *)
(* The numerical part is modelled in IEEE-754 binary64 arithmetic, the     *)
(* dtype numpy gives to np.linspace(0, 1, n) and to Python floats: every   *)
(* operation is computed exactly on arbitrary-precision naturals and then  *)
(* rounded to 53 significant bits, ties to even.  The exponent range is    *)
(* not bounded (no value of the modelled inputs comes near overflow or the *)
(* subnormal range).  The plotting part is modelled by pyplot's            *)
(* process-wide figure registry and its current figure.                    *)
(***************************************************************************)
EXTENDS Integers, Sequences, FiniteSets, TLC

(***************************************************************************)
(* Arbitrary-precision naturals: little-endian sequences of limbs in       *)
(* 0 .. Base-1 without leading (most significant) zero limbs; <<>> is 0.   *)
(* The arithmetic is written as functions, whose arguments TLC evaluates   *)
(* once, before the application.                                           *)
(***************************************************************************)
LimbBits == 5 * 3
Base == 2^LimbBits
BigNat == Seq(Nat)

BNorm[a \in BigNat] ==
  IF a = <<>> THEN <<>>
  ELSE IF a[Len(a)] = 0 THEN BNorm[SubSeq(a, 1, Len(a) - 1)] ELSE a

BFromInt[n \in Nat] == IF n = 0 THEN <<>> ELSE <<n % Base>> \o BFromInt[n \div Base]

BLimb(a, i) == IF i <= Len(a) THEN a[i] ELSE 0

BAddC[a \in BigNat, b \in BigNat, i \in Nat, carry \in Nat] ==
  IF i > Len(a) /\ i > Len(b)
  THEN IF carry = 0 THEN <<>> ELSE <<carry>>
  ELSE <<(BLimb(a, i) + BLimb(b, i) + carry) % Base>>
       \o BAddC[a, b, i + 1, (BLimb(a, i) + BLimb(b, i) + carry) \div Base]

BAdd[a \in BigNat, b \in BigNat] == BAddC[a, b, 1, 0]

\* a - b for a >= b
BSubC[a \in BigNat, b \in BigNat, i \in Nat, borrow \in Nat] ==
  IF i > Len(a) THEN <<>>
  ELSE IF BLimb(a, i) - BLimb(b, i) - borrow < 0
       THEN <<BLimb(a, i) - BLimb(b, i) - borrow + Base>> \o BSubC[a, b, i + 1, 1]
       ELSE <<BLimb(a, i) - BLimb(b, i) - borrow>> \o BSubC[a, b, i + 1, 0]

BSub[a \in BigNat, b \in BigNat] == BNorm[BSubC[a, b, 1, 0]]

\* -1, 0, 1 as a < b, a = b, a > b
BCmpAt[a \in BigNat, b \in BigNat, i \in Nat] ==
  IF i = 0 THEN 0
  ELSE IF a[i] < b[i] THEN 0 - 1
  ELSE IF a[i] > b[i] THEN 1
  ELSE BCmpAt[a, b, i - 1]

BCmp[a \in BigNat, b \in BigNat] ==
  IF Len(a) < Len(b) THEN 0 - 1
  ELSE IF Len(a) > Len(b) THEN 1
  ELSE BCmpAt[a, b, Len(a)]

\* a * d for 0 <= d <= Base
BMulSmallC[a \in BigNat, d \in Nat, i \in Nat, carry \in Nat] ==
  IF i > Len(a)
  THEN IF carry = 0 THEN <<>> ELSE <<carry>>
  ELSE <<(a[i] * d + carry) % Base>>
       \o BMulSmallC[a, d, i + 1, (a[i] * d + carry) \div Base]

BMulSmall[a \in BigNat, d \in Nat] == IF d = 0 THEN <<>> ELSE BMulSmallC[a, d, 1, 0]

\* a * Base^k
BShiftLimbs[a \in BigNat, k \in Nat] ==
  IF a = <<>> THEN <<>> ELSE [i \in 1..k |-> 0] \o a

BMulAt[a \in BigNat, b \in BigNat, i \in Nat] ==
  IF i > Len(b) THEN <<>>
  ELSE BAdd[BShiftLimbs[BMulSmall[a, b[i]], i - 1], BMulAt[a, b, i + 1]]

BMul[a \in BigNat, b \in BigNat] == BMulAt[a, b, 1]

\* floor(a / d) and a mod d for 0 < d <= Base: limb i of a and the remainder
\* rem of the limbs above it give limb i of the quotient, put before acc
BDivSmallAt[a \in BigNat, d \in Nat, i \in Nat, rem \in Nat, acc \in BigNat] ==
  IF i = 0 THEN [q |-> BNorm[acc], r |-> rem]
  ELSE BDivSmallAt[a, d, i - 1, (rem * Base + a[i]) % d,
                   <<(rem * Base + a[i]) \div d>> \o acc]

BDivSmall[a \in BigNat, d \in Nat] == BDivSmallAt[a, d, Len(a), 0, <<>>]

\* a * 2^k
BShl[a \in BigNat, k \in Nat] ==
  BShiftLimbs[BMulSmall[a, 2^(k % LimbBits)], k \div LimbBits]

\* floor(a / 2^k)
BShr[a \in BigNat, k \in Nat] ==
  IF k \div LimbBits >= Len(a) THEN <<>>
  ELSE BDivSmall[SubSeq(a, (k \div LimbBits) + 1, Len(a)), 2^(k % LimbBits)].q

\* a mod 2^k
BLow[a \in BigNat, k \in Nat] == BSub[a, BShl[BShr[a, k], k]]

IntBitLen[n \in Nat] == IF n = 0 THEN 0 ELSE 1 + IntBitLen[n \div 2]

BBitLen[a \in BigNat] ==
  IF a = <<>> THEN 0 ELSE (Len(a) - 1) * LimbBits + IntBitLen[a[Len(a)]]

BOdd(a) == a # <<>> /\ a[1] % 2 = 1

BPow2[k \in Nat] == BShl[<<1>>, k]

\* floor(sqrt(n)) and the remainder n - floor(sqrt(n))^2, digit by digit:
\* j runs over the powers 4^j from the highest one not above n down to 4^0
BSqrtAt[n \in BigNat, res \in BigNat, j \in Int] ==
  IF j < 0 THEN [q |-> res, r |-> n]
  ELSE IF BCmp[n, BAdd[res, BPow2[2 * j]]] >= 0
       THEN BSqrtAt[BSub[n, BAdd[res, BPow2[2 * j]]],
                    BAdd[BShr[res, 1], BPow2[2 * j]], j - 1]
       ELSE BSqrtAt[n, BShr[res, 1], j - 1]

BSqrt[n \in BigNat] == BSqrtAt[n, <<>>, (BBitLen[n] - 1) \div 2]

(***************************************************************************)
(* IEEE-754 binary64 values.  A number is (-1)^s * m * 2^e with m = <<>>   *)
(* (a signed zero, e = 0) or 2^(Prec-1) <= m < 2^Prec; nan is the result   *)
(* of an invalid operation (the square root of a negative number).         *)
(***************************************************************************)
Prec == 53

Float == [nan : BOOLEAN, s : {0, 1}, m : BigNat, e : Int]

FNaN == [nan |-> TRUE, s |-> 0, m |-> <<>>, e |-> 0]
FZero(sign) == [nan |-> FALSE, s |-> sign, m |-> <<>>, e |-> 0]
FNum(sign, m, e) == [nan |-> FALSE, s |-> sign, m |-> m, e |-> e]

\* q * 2^e for a q of Prec or Prec + 1 bits (the latter only as 2^Prec)
FCarry[sign \in {0, 1}, q \in BigNat, e \in Int] ==
  IF BBitLen[q] > Prec THEN FNum(sign, BShr[q, 1], e + 1) ELSE FNum(sign, q, e)

\* M * 2^e for an M of Prec + sh bits, sh > 0: q is M without its sh low
\* bits, c the comparison of those bits with one half, sticky as below
FRoundAt[sign \in {0, 1}, e \in Int, sticky \in BOOLEAN, sh \in Nat, q \in BigNat, c \in Int] ==
  IF c > 0 \/ (c = 0 /\ (sticky \/ BOdd(q)))
  THEN FCarry[sign, BAdd[q, <<1>>], e + sh]
  ELSE FNum(sign, q, e + sh)

\* as FRound, for an M # 0 of L bits
FRoundLen[sign \in {0, 1}, M \in BigNat, e \in Int, sticky \in BOOLEAN, L \in Nat] ==
  IF L <= Prec
  THEN FNum(sign, BShl[M, Prec - L], e - (Prec - L))
  ELSE FRoundAt[sign, e, sticky, L - Prec, BShr[M, L - Prec],
                BCmp[BLow[M, L - Prec], BPow2[L - Prec - 1]]]

\* (-1)^sign * (M + d) * 2^e rounded to nearest, ties to even, where
\* 0 <= d < 1 and d # 0 iff sticky (sticky only with more than Prec bits in M)
FRound[sign \in {0, 1}, M \in BigNat, e \in Int, sticky \in BOOLEAN] ==
  IF M = <<>> THEN FZero(sign) ELSE FRoundLen[sign, M, e, sticky, BBitLen[M]]

\* the float of a Python int
FInt[n \in Int] ==
  IF n < 0 THEN FRound[1, BFromInt[0 - n], 0, FALSE]
           ELSE FRound[0, BFromInt[n], 0, FALSE]

FNeg[x \in Float] == IF x.nan THEN x ELSE [x EXCEPT !.s = 1 - x.s]
FAbs[x \in Float] == IF x.nan THEN x ELSE [x EXCEPT !.s = 0]

FMul[x \in Float, y \in Float] ==
  IF x.nan \/ y.nan THEN FNaN
  ELSE IF x.m = <<>> \/ y.m = <<>> THEN FZero((x.s + y.s) % 2)
  ELSE FRound[(x.s + y.s) % 2, BMul[x.m, y.m], x.e + y.e, FALSE]

\* X * 2^e and Y * 2^e with signs sx and sy, c the comparison of X with Y
FAddAligned[sx \in {0, 1}, X \in BigNat, sy \in {0, 1}, Y \in BigNat, e \in Int, c \in Int] ==
  IF sx = sy THEN FRound[sx, BAdd[X, Y], e, FALSE]
  ELSE IF c = 0 THEN FZero(0)
  ELSE IF c > 0 THEN FRound[sx, BSub[X, Y], e, FALSE]
  ELSE FRound[sy, BSub[Y, X], e, FALSE]

FAddAt[x \in Float, y \in Float, e \in Int] ==
  FAddAligned[x.s, BShl[x.m, x.e - e], y.s, BShl[y.m, y.e - e], e,
              BCmp[BShl[x.m, x.e - e], BShl[y.m, y.e - e]]]

FAdd[x \in Float, y \in Float] ==
  IF x.nan \/ y.nan THEN FNaN
  ELSE IF x.m = <<>> /\ y.m = <<>> THEN FZero(IF x.s = 1 /\ y.s = 1 THEN 1 ELSE 0)
  ELSE IF x.m = <<>> THEN y
  ELSE IF y.m = <<>> THEN x
  ELSE FAddAt[x, y, IF x.e < y.e THEN x.e ELSE y.e]

FSub[x \in Float, y \in Float] == FAdd[x, FNeg[y]]

\* the sign of a difference d = x - y decides x < y, x <= y and x = y:
\* all false when either is nan, and -0.0 = 0.0
FNegative[d \in Float] == ~d.nan /\ d.m # <<>> /\ d.s = 1
FNotPositive[d \in Float] == ~d.nan /\ (d.m = <<>> \/ d.s = 1)
FIsZero[d \in Float] == ~d.nan /\ d.m = <<>>

FLt[x \in Float, y \in Float] == FNegative[FSub[x, y]]
FLe[x \in Float, y \in Float] == FNotPositive[FSub[x, y]]
FEq[x \in Float, y \in Float] == FIsZero[FSub[x, y]]

\* x >= 0 as numpy evaluates it: false for nan, true for -0.0
FNonNeg[x \in Float] == ~x.nan /\ (x.m = <<>> \/ x.s = 0)

\* floor(a / (ds[i] * ... * ds[Len(ds)])) for divisors 0 < ds[k] <= Base, and
\* whether any division left a remainder
BDivChain[a \in BigNat, ds \in Seq(Nat), i \in Nat, rem \in BOOLEAN] ==
  IF i > Len(ds) THEN [q |-> a, r |-> rem]
  ELSE BDivChain[BDivSmall[a, ds[i]].q, ds, i + 1, rem \/ BDivSmall[a, ds[i]].r # 0]

DivResult == [q : BigNat, r : BOOLEAN]

FDivRound[sign \in {0, 1}, res \in DivResult, e \in Int] ==
  FRound[sign, res.q, e, res.r]

\* x / (ds[1] * ... * ds[Len(ds)]), rounded once
FDivInts[x \in Float, ds \in Seq(Nat)] ==
  IF x.nan THEN FNaN
  ELSE IF x.m = <<>> THEN x
  ELSE FDivRound[x.s, BDivChain[BShl[x.m, 2 + Len(ds) * (LimbBits + 1)], ds, 1, FALSE],
                 x.e - (2 + Len(ds) * (LimbBits + 1))]

\* the double nearest to p / (ds[1] * ... * ds[Len(ds)]): a decimal literal
FRatio(p, ds) == FDivInts[FInt[p], ds]

SqrtResult == [q : BigNat, r : BigNat]

FSqrtRound[res \in SqrtResult, e \in Int] ==
  FRound[0, res.q, e, res.r # <<>>]

FSqrtAt[x \in Float, k \in Nat] ==
  FSqrtRound[BSqrt[BShl[x.m, k]], (x.e - k) \div 2]

\* np.sqrt: nan for a negative argument, the argument itself for a zero
FSqrt[x \in Float] ==
  IF x.nan THEN FNaN
  ELSE IF x.m = <<>> THEN x
  ELSE IF x.s = 1 THEN FNaN
  ELSE FSqrtAt[x, IF (x.e % 2) = 0 THEN Prec + 5 ELSE Prec + 6]

FSq[x \in Float] == FMul[x, x]

One == FInt[1]
Two == FInt[2]

(***************************************************************************)
(* plot_restaking_portfolios: the grid computation (Leverage.py 32-65)     *)
(***************************************************************************)
\* the largest n_points the model calls the function with
MaxN == 5

\* Sample with the last sample set to 1.0 also when it is the only one
Sample_endpoint(n, i) ==
  IF i = n THEN One
  ELSE FAdd[FMul[FInt[i - 1], FDivInts[One, <<n - 1>>]], FZero(0)]

\* sample i (from 1) of np.linspace(0, 1, n): arange(0, n) * (1.0 / (n - 1))
\* + 0.0, the last sample then set to 1.0; a single sample is 0 * 1.0 + 0.0
Sample(n, i) ==
  IF n > 1 /\ i = n THEN One
  ELSE IF n > 1 THEN FAdd[FMul[FInt[i - 1], FDivInts[One, <<n - 1>>]], FZero(0)]
  ELSE FAdd[FMul[FInt[i - 1], One], FZero(0)]

LinspaceTo[n \in Nat, k \in Nat] ==
  IF k = 0 THEN <<>> ELSE Append(LinspaceTo[n, k - 1], Sample(n, k))

\* np.linspace(0, 1, n) for n >= 0: no sample for n = 0
Linspace(n) == LinspaceTo[n, n]

\* the cells <<row, column>> of an n x n array, and their row-major order
Cells(n) == (1..n) \X (1..n)
Ravel(n) == [k \in 1..(n * n) |-> <<((k - 1) \div n) + 1, ((k - 1) % n) + 1>>]

\* np.meshgrid(phi1, phi2): phi1 runs along the columns, phi2 along the rows
phi1_grid(phi, cell) == phi[cell[2]]
phi2_grid(phi, cell) == phi[cell[1]]

cov(a) == FMul[FMul[a.rho, a.sigma1], a.sigma2]

\* E_R on the allocations themselves instead of their complements
E_R_unmirrored(a, p1, p2) ==
  FAdd[FMul[a.mu1, p2], FMul[a.mu2, p1]]

E_R(a, p1, p2) ==
  FAdd[FMul[a.mu1, FSub[One, p2]], FMul[a.mu2, FSub[One, p1]]]

Var_R(a, c, p1, p2) ==
  FAdd[FAdd[FMul[FSq[FSub[One, p2]], FSq[a.sigma1]],
            FMul[FSq[FSub[One, p1]], FSq[a.sigma2]]],
       FMul[FMul[FMul[Two, FSub[One, p1]], FSub[One, p2]], c]]

\* the literal 1e-10
Tolerance == FRatio(1, <<10000, 10000, 100>>)

\* valid_mask with a strict comparison
valid_mask_strict(p1, p2) == FLt[FAdd[p1, p2], One]

valid_mask(p1, p2) == FLe[FAdd[p1, p2], One]

zero_alloc_mask(p1, p2) == FLt[FAbs[FSub[FSub[One, p1], p2]], Tolerance]

E_R_leverage(a, p1, p2) ==
  FAdd[FAdd[FMul[p1, a.mu1], FMul[p2, a.mu2]],
       FMul[FSub[FSub[One, p1], p2], a.rf]]

\* Var_R_leverage with the covariance term counted once
Var_R_leverage_half(a, c, p1, p2) ==
  FAdd[FAdd[FMul[FSq[p1], FSq[a.sigma1]], FMul[FSq[p2], FSq[a.sigma2]]],
       FMul[FMul[p1, p2], c]]

Var_R_leverage(a, c, p1, p2) ==
  FAdd[FAdd[FMul[FSq[p1], FSq[a.sigma1]], FMul[FSq[p2], FSq[a.sigma2]]],
       FMul[FMul[FMul[Two, p1], p2], c]]

\* the arrays the function holds after line 65, from the samples phi and
\* the covariance c
GridsOn(a, phi, c) ==
  [n       |-> a.n_points,
   phi     |-> phi,
   E_R     |-> [cell \in Cells(a.n_points) |->
                  E_R(a, phi1_grid(phi, cell), phi2_grid(phi, cell))],
   Var_R   |-> [cell \in Cells(a.n_points) |->
                  Var_R(a, c, phi1_grid(phi, cell), phi2_grid(phi, cell))],
   sigma_R |-> [cell \in Cells(a.n_points) |->
                  FSqrt[Var_R(a, c, phi1_grid(phi, cell), phi2_grid(phi, cell))]],
   valid   |-> [cell \in Cells(a.n_points) |->
                  valid_mask(phi1_grid(phi, cell), phi2_grid(phi, cell))],
   zero    |-> [cell \in Cells(a.n_points) |->
                  zero_alloc_mask(phi1_grid(phi, cell), phi2_grid(phi, cell))],
   E_L     |-> [cell \in Cells(a.n_points) |->
                  E_R_leverage(a, phi1_grid(phi, cell), phi2_grid(phi, cell))],
   Var_L   |-> [cell \in Cells(a.n_points) |->
                  Var_R_leverage(a, c, phi1_grid(phi, cell), phi2_grid(phi, cell))],
   sigma_L |-> [cell \in Cells(a.n_points) |->
                  FSqrt[Var_R_leverage(a, c, phi1_grid(phi, cell), phi2_grid(phi, cell))]]]

\* lines 32-65: the covariance and the samples are computed once
Grids(a) ==
  CHOOSE g \in {GridsOn(a, phi, c) : phi \in {Linspace(a.n_points)}, c \in {cov(a)}} : TRUE

NoGrids == [n |-> 0 - 1]

\* the cells an n x n boolean array selects, in row-major order
Masked(n, mask) ==
  LET Keep(cell) == mask[cell] IN SelectSeq(Ravel(n), Keep)

\* the points of a scatter layer (lines 74-104) over the cells sel: x the
\* volatility, y the expected return; the cell is kept to name the grid pair
Points(sel, X, Y) ==
  [k \in 1..Len(sel) |-> [cell |-> sel[k], x |-> X[sel[k]], y |-> Y[sel[k]]]]

\* RestakingLayer under valid_mask alone
RestakingLayer_unfiltered(g) ==
  Points(Masked(g.n, g.valid), g.sigma_R, g.E_R)

\* lines 74-82: sigma_R and E_R under valid_mask & ~zero_alloc_mask
RestakingLayer(g) ==
  Points(Masked(g.n, [cell \in Cells(g.n) |-> g.valid[cell] /\ ~g.zero[cell]]),
         g.sigma_R, g.E_R)

\* line 77: c = 1 - phi1_grid[mask] - phi2_grid[mask]
RestakingColour(g, pts) ==
  [k \in 1..Len(pts) |->
     FSub[FSub[One, phi1_grid(g.phi, pts[k].cell)], phi2_grid(g.phi, pts[k].cell)]]

\* lines 85-93: sigma_R and E_R under valid_mask & zero_alloc_mask
FullyAllocatedLayer(g) ==
  Points(Masked(g.n, [cell \in Cells(g.n) |-> g.valid[cell] /\ g.zero[cell]]),
         g.sigma_R, g.E_R)

\* LeveragedLayer under valid_mask, as the restaking layers are
LeveragedLayer_masked(g) ==
  Points(Masked(g.n, g.valid), g.sigma_L, g.E_L)

\* lines 96-104: the whole arrays sigma_R_leverage and E_R_leverage
LeveragedLayer(g) == Points(Ravel(g.n), g.sigma_L, g.E_L)

\* line 99: c = phi1_grid + phi2_grid
LeveragedColour(g, pts) ==
  [k \in 1..Len(pts) |->
     FAdd[phi1_grid(g.phi, pts[k].cell), phi2_grid(g.phi, pts[k].cell)]]

NoPlot == [scatter1 |-> <<>>, colour1 |-> <<>>, solid |-> <<>>,
           scatter2 |-> <<>>, colour2 |-> <<>>]

(***************************************************************************)
(* The callers.  Leverage_app.py is re-run by Streamlit, each browser      *)
(* session in a thread of its own within one process, whenever a slider    *)
(* moves: every run calls plot_restaking_portfolios once and hands the     *)
(* figure to st.pyplot.  pyplot keeps one registry of open figures and one *)
(* current figure for the whole process.                                   *)
(***************************************************************************)
Sessions == {1, 2}

\* at most this many calls are made in a behaviour (no figure is ever closed)
MaxFigs == 2

\* parameter values, as the decimal literals of the signature and the sliders
Dec(p) == FRatio(p, <<100>>)

Defaults ==
  [mu1 |-> Dec(5), mu2 |-> Dec(7), sigma1 |-> Dec(10), sigma2 |-> Dec(15),
   rho |-> FRatio(3, <<10>>), rf |-> Dec(2)]

\* slider positions with perfectly anti-correlated and perfectly correlated AVSs
AntiCorrelated ==
  [mu1 |-> Dec(5), mu2 |-> Dec(7), sigma1 |-> Dec(9), sigma2 |-> Dec(27),
   rho |-> FInt[0 - 1], rf |-> Dec(2)]

Correlated ==
  [mu1 |-> Dec(20), mu2 |-> Dec(20), sigma1 |-> Dec(50), sigma2 |-> Dec(1),
   rho |-> One, rf |-> Dec(10)]

Scenarios == {Defaults, AntiCorrelated, Correlated}

WithN(p, n) ==
  [mu1 |-> p.mu1, mu2 |-> p.mu2, sigma1 |-> p.sigma1, sigma2 |-> p.sigma2,
   rho |-> p.rho, rf |-> p.rf, n_points |-> n]

\* the calls a single session makes, and those two concurrent sessions make
Inputs == {WithN(p, n) : p \in Scenarios, n \in (0 - 1)..MaxN}
ConcurrentInputs == {WithN(Defaults, 2)}

NoArgs == [n_points |-> 0 - 2]

VARIABLES
  pc,       \* per session: the statement the session executes next
  args,     \* per session: the arguments of its call
  grids,    \* per session: the local arrays of the call (lines 32-65)
  fig,      \* per session: the local handle fig (a figure number, 0: none)
  plot,     \* per session: the data of the three scatter layers of its axes
  outcome,  \* per session: "none", "figure" (returned) or "error" (raised)
  shown,    \* per session: the figure st.pyplot rendered
  figs,     \* pyplot: the open figures, by number
  active    \* pyplot: the number of the current figure, 0: none

vars == <<pc, args, grids, fig, plot, outcome, shown, figs, active>>

NewFigure == [layers |-> <<>>, colorbars |-> <<>>, legend |-> 0, tight |-> {}]

Init ==
  /\ pc      = [s \in Sessions |-> "idle"]
  /\ args    = [s \in Sessions |-> NoArgs]
  /\ grids   = [s \in Sessions |-> NoGrids]
  /\ fig     = [s \in Sessions |-> 0]
  /\ plot    = [s \in Sessions |-> NoPlot]
  /\ outcome = [s \in Sessions |-> "none"]
  /\ shown   = [s \in Sessions |-> NewFigure]
  /\ figs    = <<>>
  /\ active  = 0

\* calls that have not yet opened their figure
Pending == {s \in Sessions : pc[s] \in {"compute", "subplots"}}

\* Leverage_app.py 50-54: a (re-)run of the script calls the function
Call(s, a) ==
  /\ pc[s] \in {"idle", "done", "raised"}
  /\ Len(figs) + Cardinality(Pending) < MaxFigs
  /\ pc'      = [pc EXCEPT ![s] = "compute"]
  /\ args'    = [args EXCEPT ![s] = a]
  /\ grids'   = [grids EXCEPT ![s] = NoGrids]
  /\ fig'     = [fig EXCEPT ![s] = 0]
  /\ plot'    = [plot EXCEPT ![s] = NoPlot]
  /\ outcome' = [outcome EXCEPT ![s] = "none"]
  /\ shown'   = [shown EXCEPT ![s] = NewFigure]
  /\ UNCHANGED <<figs, active>>

\* Leverage.py 32-65; np.linspace raises ValueError for a negative n_points
Compute(s) ==
  /\ pc[s] = "compute"
  /\ IF args[s].n_points < 0
     THEN /\ pc'      = [pc EXCEPT ![s] = "raised"]
          /\ outcome' = [outcome EXCEPT ![s] = "error"]
          /\ UNCHANGED grids
     ELSE /\ pc'      = [pc EXCEPT ![s] = "subplots"]
          /\ grids'   = [grids EXCEPT ![s] = Grids(args[s])]
          /\ UNCHANGED outcome
  /\ UNCHANGED <<args, fig, plot, shown, figs, active>>

\* Leverage.py 71: plt.subplots opens a new figure and makes it current
Subplots(s) ==
  /\ pc[s] = "subplots"
  /\ figs'   = Append(figs, NewFigure)
  /\ active' = Len(figs) + 1
  /\ fig'    = [fig EXCEPT ![s] = Len(figs) + 1]
  /\ pc'     = [pc EXCEPT ![s] = "scatter"]
  /\ UNCHANGED <<args, grids, plot, outcome, shown>>

\* Leverage.py 74-104: three ax.scatter calls on the call's own axes
Scatter(s) ==
  /\ pc[s] = "scatter"
  /\ plot' = [plot EXCEPT ![s] =
                [scatter1 |-> RestakingLayer(grids[s]),
                 colour1  |-> RestakingColour(grids[s], RestakingLayer(grids[s])),
                 solid    |-> FullyAllocatedLayer(grids[s]),
                 scatter2 |-> LeveragedLayer(grids[s]),
                 colour2  |-> LeveragedColour(grids[s], LeveragedLayer(grids[s]))]]
  /\ figs' = [figs EXCEPT ![fig[s]].layers =
                <<"Restaking", "Restaking with(1 - phi1 - phi2)=0", "Leveraged">>]
  /\ pc'   = [pc EXCEPT ![s] = "colorbar"]
  /\ UNCHANGED <<args, grids, fig, outcome, shown, active>>

\* Leverage.py 107-113: plt.colorbar(scatter, ax=ax) places each colour bar
\* in the figure of ax; each entry records the figure of the call that made it
Colorbars(s) ==
  /\ pc[s] = "colorbar"
  /\ figs' = [figs EXCEPT ![fig[s]].colorbars = @ \o <<fig[s], fig[s]>>]
  /\ pc'   = [pc EXCEPT ![s] = "legend"]
  /\ UNCHANGED <<args, grids, fig, plot, outcome, shown, active>>

\* Leverage.py 116-125: labels and grid on ax; plt.legend is gca().legend,
\* the legend of the current figure's axes (replacing any legend there)
Legend(s) ==
  /\ pc[s] = "legend"
  /\ figs' = [figs EXCEPT ![active].legend = fig[s]]
  /\ pc'   = [pc EXCEPT ![s] = "layout"]
  /\ UNCHANGED <<args, grids, fig, plot, outcome, shown, active>>

\* Leverage.py 128: plt.tight_layout is gcf().tight_layout
TightLayout(s) ==
  /\ pc[s] = "layout"
  /\ figs' = [figs EXCEPT ![active].tight = @ \cup {fig[s]}]
  /\ pc'   = [pc EXCEPT ![s] = "return"]
  /\ UNCHANGED <<args, grids, fig, plot, outcome, shown, active>>

\* Leverage.py 130: return fig; the local arrays die, the figure stays open
Return(s) ==
  /\ pc[s] = "return"
  /\ outcome' = [outcome EXCEPT ![s] = "figure"]
  /\ grids'   = [grids EXCEPT ![s] = NoGrids]
  /\ pc'      = [pc EXCEPT ![s] = "pyplot"]
  /\ UNCHANGED <<args, fig, plot, shown, figs, active>>

\* Leverage_app.py 55: st.pyplot(fig) renders the figure and leaves it open
\* (clear_figure defaults to False when a figure is passed)
Pyplot(s) ==
  /\ pc[s] = "pyplot"
  /\ shown' = [shown EXCEPT ![s] = figs[fig[s]]]
  /\ pc'    = [pc EXCEPT ![s] = "done"]
  /\ UNCHANGED <<args, grids, fig, plot, outcome, figs, active>>

Step(s) ==
  \/ Compute(s)
  \/ Subplots(s)
  \/ Scatter(s)
  \/ Colorbars(s)
  \/ Legend(s)
  \/ TightLayout(s)
  \/ Return(s)
  \/ Pyplot(s)

\* one session, every input
Next ==
  \/ \E a \in Inputs : Call(1, a)
  \/ Step(1)

Spec == Init /\ [][Next]_vars

\* two sessions whose calls interleave statement by statement
NextConcurrent ==
  \/ \E s \in Sessions : \E a \in ConcurrentInputs : Call(s, a)
  \/ \E s \in Sessions : Step(s)

SpecConcurrent == Init /\ [][NextConcurrent]_vars

(***************************************************************************)
(* The claims                                                              *)
(***************************************************************************)
\* the local arrays of session s exist: lines 32-65 have run
Computed(s) == grids[s].n >= 0

\* the three scatter layers of session s have been drawn
Plotted(s) == pc[s] \in {"colorbar", "legend", "layout", "return", "pyplot", "done"}

\* the grid pairs of a layer
LayerCells(layer) == {layer[k].cell : k \in 1..Len(layer)}

\* the grid pairs of the restaking set: both restaking layers
RestakingCells(s) == LayerCells(plot[s].scatter1) \cup LayerCells(plot[s].solid)

\* phi1 + phi2 <= 1 at a cell of the samples phi, in binary64
SumAtMostOne(phi, cell) == FLe[FAdd[phi[cell[2]], phi[cell[1]]], One]

\* |1 - phi1 - phi2| < 1e-10 at a cell of the samples phi, in binary64
ResidualIsZero(phi, cell) ==
  FLt[FAbs[FSub[FSub[One, phi[cell[2]]], phi[cell[1]]]], FRatio(1, <<10000, 10000, 100>>)]

C3_GridSize ==
  \A s \in Sessions :
    (Plotted(s) /\ args[s].n_points >= 1) =>
      /\ Len(Linspace(args[s].n_points)) = args[s].n_points
      /\ Len(plot[s].scatter2) = args[s].n_points * args[s].n_points
      /\ LayerCells(plot[s].scatter2) = Cells(args[s].n_points)
      /\ Len(plot[s].scatter1) + Len(plot[s].solid)
           <= args[s].n_points * args[s].n_points

\* a plot whose restaking set is smaller than its leveraged set
C3_Witness ==
  \E s \in Sessions :
    /\ Plotted(s)
    /\ args[s].n_points >= 2
    /\ Len(plot[s].scatter1) + Len(plot[s].solid) < Len(plot[s].scatter2)

\* C4 (the claim as stated): a call with n_points = 0 ends in an error and
\* produces no points and no figure
C4_ZeroRejected ==
  \A s \in Sessions :
    (args[s].n_points = 0 /\ pc[s] # "compute") =>
      /\ pc[s] = "raised"
      /\ outcome[s] = "error"
      /\ fig[s] = 0

\* C5 (the claim as stated): with sigma1, sigma2 >= 0 and -1 <= rho <= 1 the
\* variance is non-negative at every grid pair in both branches, and every
\* volatility is defined and non-negative
C5_VarianceNonNegative ==
  \A s \in Sessions :
    (/\ Computed(s)
     /\ args[s].n_points >= 1
     /\ FNonNeg[args[s].sigma1]
     /\ FNonNeg[args[s].sigma2]
     /\ FLe[FInt[0 - 1], args[s].rho]
     /\ FLe[args[s].rho, One]) =>
      \A cell \in Cells(grids[s].n) :
        /\ FNonNeg[grids[s].Var_R[cell]]
        /\ FNonNeg[grids[s].Var_L[cell]]
        /\ FNonNeg[grids[s].sigma_R[cell]]
        /\ FNonNeg[grids[s].sigma_L[cell]]

\* C6 (the claim as stated): under every interleaving each call's colour
\* bars, legend and layout adjustment are on the figure the call created
\* and returns, never on another call's figure
C6_OwnFigureOnly ==
  /\ \A k \in 1..Len(figs) :
       /\ figs[k].legend \in {0, k}
       /\ figs[k].tight \subseteq {k}
       /\ \A i \in 1..Len(figs[k].colorbars) : figs[k].colorbars[i] = k
  /\ \A s \in Sessions :
       pc[s] \in {"pyplot", "done"} =>
         /\ figs[fig[s]].legend = fig[s]
         /\ fig[s] \in figs[fig[s]].tight
         /\ Len(figs[fig[s]].colorbars) = 2

\* C7 (the claim as stated): after any sequence of calls the open figures
\* and the current figure are those from before the first call
C7_NoSideEffects ==
  (\A s \in Sessions : pc[s] \in {"idle", "done", "raised"}) =>
    /\ figs = <<>>
    /\ active = 0

\* C8: n_points = 1 is valid and gives the single grid pair (0, 0): one
\* restaking point, valid and not fully allocated (residual weight 1), and
\* one leveraged point
C8_SinglePoint ==
  \A s \in Sessions :
    (Plotted(s) /\ args[s].n_points = 1) =>
      /\ outcome[s] # "error"
      /\ pc[s] = "done" => outcome[s] = "figure"
      /\ Linspace(1) = <<FZero(0)>>
      /\ Len(plot[s].scatter1) = 1
      /\ plot[s].scatter1[1].cell = <<1, 1>>
      /\ plot[s].colour1 = <<One>>
      /\ plot[s].solid = <<>>
      /\ Len(plot[s].scatter2) = 1
      /\ plot[s].scatter2[1].cell = <<1, 1>>

\* a finished call with n_points = 1
C8_Witness ==
  \E s \in Sessions : pc[s] = "done" /\ args[s].n_points = 1 /\ outcome[s] = "figure"

\* C9: for n_points >= 1 the pair phi1 = phi2 = 0 is on the grid; there the
\* restaking return is mu1 + mu2 with variance sigma1^2 + sigma2^2 +
\* 2*rho*sigma1*sigma2, the leveraged return is rf with variance 0
C9_Origin ==
  \A s \in Sessions :
    (Computed(s) /\ grids[s].n >= 1) =>
      /\ FIsZero[phi1_grid(grids[s].phi, <<1, 1>>)]
      /\ FIsZero[phi2_grid(grids[s].phi, <<1, 1>>)]
      /\ FEq[grids[s].E_R[<<1, 1>>], FAdd[args[s].mu1, args[s].mu2]]
      /\ FEq[grids[s].Var_R[<<1, 1>>],
             FAdd[FAdd[FSq[args[s].sigma1], FSq[args[s].sigma2]],
                  FMul[FMul[FMul[Two, args[s].rho], args[s].sigma1], args[s].sigma2]]]
      /\ FEq[grids[s].E_L[<<1, 1>>], args[s].rf]
      /\ FIsZero[grids[s].Var_L[<<1, 1>>]]

\* computed arrays of a grid with more pairs than the origin
C9_Witness ==
  \E s \in Sessions :
    /\ Computed(s)
    /\ grids[s].n >= 2
    /\ ~FIsZero[grids[s].E_R[<<1, 1>>]]
    /\ ~FIsZero[grids[s].Var_R[<<1, 1>>]]

\* the grid pair mirrored: (phi1, phi2) at <<row, column>> has 1 - phi2 in
\* column n + 1 - row and 1 - phi1 in row n + 1 - column
Mirror(n, cell) == <<n + 1 - cell[2], n + 1 - cell[1]>>

\* the identities of C10 at a cell, under an equality Same(x, y) of floats
MirrorIdentities(a, g, cell, Same(_, _)) ==
  /\ Same(phi1_grid(g.phi, Mirror(g.n, cell)), FSub[One, phi2_grid(g.phi, cell)])
  /\ Same(phi2_grid(g.phi, Mirror(g.n, cell)), FSub[One, phi1_grid(g.phi, cell)])
  /\ Same(g.Var_R[cell], g.Var_L[Mirror(g.n, cell)])
  /\ Same(g.E_R[cell],
          FAdd[g.E_L[Mirror(g.n, cell)],
               FMul[FSub[FSub[One, phi1_grid(g.phi, cell)], phi2_grid(g.phi, cell)], a.rf]])

SameExactly(x, y) == FEq[x, y]
SameRounded(x, y) == FLt[FAbs[FSub[x, y]], FRatio(1, <<10000, 10000, 100>>)]

\* C10 (the claim as stated): for n_points >= 2 the mirrored pair of a grid
\* pair is a grid pair, the restaking variance equals the leveraged variance
\* at the mirrored pair, the restaking return equals the leveraged return
\* there plus (1 - phi1 - phi2) * rf, and at a fully-allocated pair
\* (phi1 + phi2 = 1) both strategies have equal return and equal variance
C10_MirrorExact ==
  \A s \in Sessions :
    (Computed(s) /\ grids[s].n >= 2) =>
      \A cell \in Cells(grids[s].n) :
        /\ MirrorIdentities(args[s], grids[s], cell, SameExactly)
        /\ FEq[FAdd[phi1_grid(grids[s].phi, cell), phi2_grid(grids[s].phi, cell)], One] =>
             /\ FEq[grids[s].E_R[cell], grids[s].E_L[cell]]
             /\ FEq[grids[s].Var_R[cell], grids[s].Var_L[cell]]

\* C10 as amended: the same identities hold up to binary64 rounding, each
\* pair of values differing by less than 1e-10 (parameters within the
\* sliders' ranges), with the fully-allocated pairs those the code tags
\* (|1 - phi1 - phi2| < 1e-10)
C10_MirrorRounded ==
  \A s \in Sessions :
    (Computed(s) /\ grids[s].n >= 2) =>
      \A cell \in Cells(grids[s].n) :
        /\ MirrorIdentities(args[s], grids[s], cell, SameRounded)
        /\ ResidualIsZero(grids[s].phi, cell) =>
             /\ SameRounded(grids[s].E_R[cell], grids[s].E_L[cell])
             /\ SameRounded(grids[s].Var_R[cell], grids[s].Var_L[cell])

\* computed arrays with a fully-allocated pair whose two variances differ
\* in their last bits
C10_Witness ==
  \E s \in Sessions :
    /\ Computed(s)
    /\ grids[s].n >= 2
    /\ \E cell \in Cells(grids[s].n) :
         /\ ResidualIsZero(grids[s].phi, cell)
         /\ ~FEq[grids[s].Var_R[cell], grids[s].Var_L[cell]]
         /\ SameRounded(grids[s].Var_R[cell], grids[s].Var_L[cell])

====
